---- MODULE Spec2Model ----
(***************************************************************************)
(* Model of the YVote tracker, src/track_yvote_v3_1.py: the transport      *)
(* (fetch_raw), the extractor (extract_ratiovotes), the calibrator         *)
(* (calibrate_and_calculate_votes), the persistence functions (log_to_csv, *)
(* save_state, load_state) and the poll loop (main).                       *)
(*                                                                         *)
(* Percentages are whole percents, held as integers; percent / 100 * total *)
(* and votes / percents * 100 are computed over the rationals and rounded  *)
(* half-to-even, as Python's round() does.                                 *)
(***************************************************************************)
EXTENDS Integers, Sequences, FiniteSets, TLC

\* ------------------------------------------------------------------ bounds
\* Number of loop iterations (timestamps taken) over all runs of the process.
MaxCycles == 2
\* Number of times the process is started again after it stopped or died.
MaxRestarts == 1
\* Number of file operations that fail (disk full, file not writable) over
\* all runs.
MaxFaults == 1
\* Number of "name" ... "ratioVotes" matches in a response body given to the
\* extractor on its own.
MaxFound == 3

\* --------------------------------------------------------------- constants
INITIAL_TOTAL_ESTIMATE == 1017428

\* A value json.loads can yield that is no number (a string, null, a list).
BadValue == -1
\* The float infinity, which json.loads yields for Infinity or 1e999.
Infinity == -2

IsNumber(v) == v >= 0

\* a <= b on Python numbers, the snapshot's odd values included.
Leq(a, b) == a = b \/ b = Infinity \/ (IsNumber(a) /\ IsNumber(b) /\ a <= b)

\* ----------------------------------------------------------------- helpers
\* Python's round(num / den) for num >= 0, den > 0: half to even.
Round(num, den) ==
    LET q == num \div den
        r == num % den
    IN  IF 2 * r < den THEN q
        ELSE IF 2 * r > den THEN q + 1
        ELSE IF q % 2 = 0 THEN q ELSE q + 1

RECURSIVE SumSeq(_)
SumSeq(s) == IF s = <<>> THEN 0 ELSE Head(s) + SumSeq(Tail(s))

\* s with x inserted before the first element whose key is greater than x's:
\* one step of a stable ascending sort. key is a function on the elements.
RECURSIVE InsertStable(_, _, _)
InsertStable(s, x, key) ==
    IF s = <<>> THEN <<x>>
    ELSE IF key[x] < key[Head(s)] THEN <<x>> \o s
    ELSE <<Head(s)>> \o InsertStable(Tail(s), x, key)

\* list.sort(key=...): ascending in the key and stable, elements with equal
\* keys keep their order.
RECURSIVE SortStable(_, _)
SortStable(s, key) ==
    IF s = <<>> THEN <<>>
    ELSE InsertStable(SortStable(SubSeq(s, 1, Len(s) - 1), key), s[Len(s)], key)

Range(s) == {s[i] : i \in 1..Len(s)}

\* ------------------------------------------------------------ response text
\* A response body is modelled by what pattern.findall yields on it: the
\* sequence of (name, ratioVotes digits) pairs, plus whether the body is
\* empty or whitespace only.
E(n, p) == [name |-> n, pct |-> p]

BlankBody == [blank |-> TRUE, found |-> <<>>]

Text(found) == [blank |-> FALSE, found |-> found]

Texts ==
    { Text(<<E("Abc", "50")>>),
      Text(<<E("Abc", "40")>>),
      Text(<<E("ABC", "40")>>),
      Text(<<E("Abc", "0")>>),
      Text(<<E("Bo ", "50"), E("Abc", "40")>>),
      Text(<<E("Abc", "1.2.3")>>),
      Text(<<>>) }

Bodies == Texts \cup {BlankBody}

\* str.strip
Strip(name) == IF name = "Bo " THEN "Bo" ELSE name

\* str.upper
Upper(name) ==
    CASE name = "Abc" -> "ABC"
      [] name = "Bo" -> "BO"
      [] OTHER -> name

\* float(pct_str): the number, or BadValue where float raises ValueError.
Float(s) ==
    CASE s = "0" -> 0
      [] s = "40" -> 40
      [] s = "50" -> 50
      [] OTHER -> BadValue

\* --------------------------------------------------------------- extractor
\* Replaces keeping the entry met last, whatever its percent.
ReplacesAlways(pct, kept) == TRUE

\* "pct > candidates[key]["percent"]": whether an entry replaces the one kept
\* for its key.
Replaces(pct, kept) == pct > kept

\* The candidates dict after the first i matches: a sequence of
\* [key, name, percent] in insertion order, a replaced key keeping its place.
RECURSIVE Candidates(_, _)
Candidates(found, i) ==
    IF i = 0 THEN <<>>
    ELSE LET prev == Candidates(found, i - 1)
             name == Strip(found[i].name)
             pct  == Float(found[i].pct)
             key  == Upper(name)
             at   == {k \in 1..Len(prev) : prev[k].key = key}
         IN  IF pct = BadValue THEN prev
             ELSE IF at = {}
                  THEN Append(prev, [key |-> key, name |-> name, percent |-> pct])
             ELSE LET k == CHOOSE k \in at : TRUE
                  IN  IF Replaces(pct, prev[k].percent)
                      THEN [prev EXCEPT ![k] = [key |-> key, name |-> name, percent |-> pct]]
                      ELSE prev

\* ByPercentDescending without reverse=True: ascending.
ByPercentAscending(s) == [x \in Range(s) |-> x.percent]

\* key=lambda x: x["percent"], reverse=True: descending and still stable.
ByPercentDescending(s) == [x \in Range(s) |-> 0 - x.percent]

extract_ratiovotes(text) ==
    LET cands  == Candidates(text.found, Len(text.found))
        result == SortStable(cands, ByPercentDescending(cands))
    IN  [i \in 1..Len(result) |->
            [name |-> result[i].name, percent |-> result[i].percent, rank |-> i]]

\* -------------------------------------------------------------- calibrator
\* What candidate_votes holds when the snapshot's "candidate_votes" is no
\* object (a list, a number, a string): anything without a .get method.
BadMap == [n \in {"<no dict>"} |-> BadValue]

\* NaiveVotes rounding a half upward.
NaiveVotesHalfUp(percent, total) == (percent * total + 50) \div 100

\* int(round(percent / 100 * current_total))
NaiveVotes(percent, total) == Round(percent * total, 100)

\* PreviousVotes counting one vote more than is stored.
PreviousVotesBumped(cv, name) == IF name \in DOMAIN cv THEN cv[name] + 1 ELSE 0

\* candidate_votes.get(name, 0)
PreviousVotes(cv, name) == IF name \in DOMAIN cv THEN cv[name] ELSE 0

\* MonotonicVotes without the floor: the naive figure is kept.
MonotonicVotesNoFloor(votes, previous_votes) == votes

\* max(votes, previous_votes): previous_votes when it is greater, else votes.
MonotonicVotes(votes, previous_votes) ==
    IF previous_votes = Infinity THEN Infinity
    ELSE IF previous_votes > votes THEN previous_votes ELSE votes

\* DictSet dropping every other key of the dict.
DictSetOnly(d, name, v) == [n \in {name} |-> v]

\* d[name] = v on a dict held as a function.
DictSet(d, name, v) ==
    [n \in DOMAIN d \cup {name} |-> IF n = name THEN v ELSE d[n]]

\* calculated_votes[name] = row on a dict held as a sequence of rows in
\* insertion order: a name already present keeps its place.
RowSet(rows, row) ==
    LET at == {k \in 1..Len(rows) : rows[k].name = row.name}
    IN  IF at = {} THEN Append(rows, row)
        ELSE [rows EXCEPT ![CHOOSE k \in at : TRUE] = row]

\* The first loop raises, before anything is stored, when current_total is
\* no finite number (TypeError, OverflowError), candidate_votes has no .get
\* (AttributeError) or a stored value is no number (TypeError in max).
FirstLoopRaises(data, total, cv) ==
    /\ Len(data) > 0
    /\ \/ ~IsNumber(total)
       \/ cv = BadMap
       \/ \E i \in 1..Len(data) : PreviousVotes(cv, data[i].name) = BadValue

\* calculated_votes after the first loop over candidates_data[1..i].
RECURSIVE FirstLoop(_, _, _, _)
FirstLoop(data, i, total, cv) ==
    IF i = 0 THEN <<>>
    ELSE LET c == data[i]
             votes == MonotonicVotes(NaiveVotes(c.percent, total),
                                     PreviousVotes(cv, c.name))
         IN  RowSet(FirstLoop(data, i - 1, total, cv),
                    [rank |-> c.rank, name |-> c.name,
                     percent |-> c.percent, votes |-> votes])

\* candidate_votes after "for name, data in calculated_votes.items()".
RECURSIVE UpdateTracker(_, _, _)
UpdateTracker(cv, calc, i) ==
    IF i = 0 THEN cv
    ELSE DictSet(UpdateTracker(cv, calc, i - 1), calc[i].name, calc[i].votes)

\* sum(data["votes"] ...): infinite as soon as one term is.
TotalVotes(calc) ==
    IF \E i \in 1..Len(calc) : calc[i].votes = Infinity THEN Infinity
    ELSE SumSeq([i \in 1..Len(calc) |-> calc[i].votes])

\* TotalPercentages taking the percents to add up to 100.
TotalPercentagesHundred(data) == 100

TotalPercentages(data) == SumSeq([i \in 1..Len(data) |-> data[i].percent])

\* ImpliedTotal taking the sum of the votes for the total.
ImpliedTotalVoteSum(total_votes, total_percentages) == total_votes

\* int(round(total_votes / total_percentages * 100))
ImpliedTotal(total_votes, total_percentages) ==
    Round(total_votes * 100, total_percentages)

\* NewTotal adopting the implied total whatever the current one.
NewTotalAlwaysImplied(total, implied_total) == implied_total

\* The total kept by "if implied_total > current_total ... else max(...)".
NewTotal(total, implied_total) ==
    IF implied_total > total THEN implied_total
    ELSE IF total > implied_total THEN total ELSE implied_total

\* [cv, calc] after the recalculation loop over candidates_data[1..i].
RECURSIVE SecondLoop(_, _, _, _, _)
SecondLoop(data, i, total, cv, calc) ==
    IF i = 0 THEN [cv |-> cv, calc |-> calc]
    ELSE LET before == SecondLoop(data, i - 1, total, cv, calc)
             c == data[i]
             votes == MonotonicVotes(NaiveVotes(c.percent, total),
                                     PreviousVotes(before.cv, c.name))
             at == CHOOSE k \in 1..Len(before.calc) : before.calc[k].name = c.name
         IN  [cv   |-> DictSet(before.cv, c.name, votes),
              calc |-> [before.calc EXCEPT ![at].votes = votes]]

\* ByRank with the highest rank first.
ByRankDescending(s) == [x \in Range(s) |-> 0 - x.rank]

\* key=lambda x: x["rank"]
ByRank(s) == [x \in Range(s) |-> x.rank]

\* The call's outcome on (current_total, candidate_votes) = (total, cv):
\* whether it raised, the two globals after it, and the list it returned.
calibrate_and_calculate_votes(data, total, cv) ==
    IF FirstLoopRaises(data, total, cv)
    THEN [raised |-> TRUE, current_total |-> total, candidate_votes |-> cv,
          result |-> <<>>]
    ELSE
    LET calc    == FirstLoop(data, Len(data), total, cv)
        tracked == UpdateTracker(cv, calc, Len(calc))
        total_votes == TotalVotes(calc)
        total_percentages == TotalPercentages(data)
    IN  IF total_percentages > 0
        THEN IF total_votes = Infinity
             THEN \* round(inf): OverflowError, after the tracker was updated
                  [raised |-> TRUE, current_total |-> total,
                   candidate_votes |-> tracked, result |-> <<>>]
             ELSE LET implied_total == ImpliedTotal(total_votes, total_percentages)
                      kept == NewTotal(total, implied_total)
                  IN  IF implied_total > total
                      THEN [raised |-> FALSE, current_total |-> kept,
                            candidate_votes |-> tracked,
                            result |-> SortStable(calc, ByRank(calc))]
                      ELSE LET again == SecondLoop(data, Len(data), kept, tracked, calc)
                           IN  [raised |-> FALSE, current_total |-> kept,
                                candidate_votes |-> again.cv,
                                result |-> SortStable(again.calc, ByRank(again.calc))]
        ELSE [raised |-> FALSE, current_total |-> total,
              candidate_votes |-> tracked,
              result |-> SortStable(calc, ByRank(calc))]

\* ------------------------------------------------------------- persistence
EmptyDict == [n \in {} |-> 0]

\* yvote_v3_log.csv: whether it exists, and its rows in file order.
HeaderRow == [kind |-> "header"]

\* DataRow with the votes written in the total column as well.
DataRowVotesForTotal(timestamp, total, row) ==
    [kind |-> "data", timestamp |-> timestamp, total |-> row.votes,
     rank |-> row.rank, name |-> row.name, percent |-> row.percent,
     votes |-> row.votes]

DataRow(timestamp, total, row) ==
    [kind |-> "data", timestamp |-> timestamp, total |-> total,
     rank |-> row.rank, name |-> row.name, percent |-> row.percent,
     votes |-> row.votes]

\* log_to_csv(data, total, timestamp) on the file, where the I/O goes wrong
\* after `written` rows: -2 when open() fails, -1 when open(path, "a") has
\* made the file and nothing reaches it (the buffer is lost at close),
\* Len(data) when nothing fails.
log_to_csv(data, total, timestamp, file, written) ==
    IF written = -2 THEN [raised |-> TRUE, file |-> file]
    ELSE IF written = -1
    THEN [raised |-> TRUE, file |-> [exists |-> TRUE, rows |-> file.rows]]
    ELSE LET new_file == ~file.exists
             header   == IF new_file THEN <<HeaderRow>> ELSE <<>>
             rows     == [i \in 1..written |-> DataRow(timestamp, total, data[i])]
         IN  [raised |-> written < Len(data),
              file   |-> [exists |-> TRUE, rows |-> file.rows \o header \o rows]]

\* json.dumps of a value: a number literal, the token Infinity for the
\* float infinity, and for what is no number a literal that is none (null, a
\* string, an array).
JsonDump(v) ==
    CASE v = Infinity -> [json |-> "Infinity", digits |-> 0]
      [] v = BadValue -> [json |-> "null", digits |-> 0]
      [] OTHER        -> [json |-> "number", digits |-> v]

\* json.loads of a literal.
JsonLoad(t) ==
    CASE t.json = "Infinity" -> Infinity
      [] t.json = "null"     -> BadValue
      [] OTHER               -> t.digits

\* state_v3.json: absent, unparseable or no JSON object ("garbage"), or a
\* JSON object with or without each of the two keys.
AbsentSnapshot ==
    [kind |-> "absent", has_total |-> FALSE, current_total |-> JsonDump(0),
     has_votes |-> FALSE, candidate_votes |-> EmptyDict]

GarbageSnapshot ==
    [kind |-> "garbage", has_total |-> FALSE, current_total |-> JsonDump(0),
     has_votes |-> FALSE, candidate_votes |-> EmptyDict]

\* The text json.dumps gives for {"current_total": ..., "candidate_votes": ...}.
Snapshot(total, votes) ==
    [kind |-> "object", has_total |-> TRUE, current_total |-> JsonDump(total),
     has_votes |-> TRUE,
     candidate_votes |-> [n \in DOMAIN votes |-> JsonDump(votes[n])]]

\* save_state() on the file; disk is "ok", "unopened" (open fails, OSError)
\* or "truncated" (the file is opened for writing and the write fails).
save_state(total, cv, file, disk) ==
    CASE disk = "ok"        -> [raised |-> FALSE, file |-> Snapshot(total, cv)]
      [] disk = "unopened"  -> [raised |-> TRUE, file |-> file]
      [] disk = "truncated" -> [raised |-> TRUE, file |-> GarbageSnapshot]

\* load_state reading current_total only: candidate_votes stays as it was.
load_state_total_only(total, cv, file) ==
    [current_total   |-> IF file.kind = "object" /\ file.has_total
                         THEN JsonLoad(file.current_total) ELSE total,
     candidate_votes |-> cv]

\* load_state(): the two globals after it. The bare except swallows what
\* json.loads, .get on a non-object and the print raise; the two assignments
\* that ran before stay.
load_state(total, cv, file) ==
    IF file.kind = "object"
    THEN [current_total   |-> IF file.has_total THEN JsonLoad(file.current_total)
                              ELSE INITIAL_TOTAL_ESTIMATE,
          candidate_votes |-> IF file.has_votes
                              THEN [n \in DOMAIN file.candidate_votes |->
                                       JsonLoad(file.candidate_votes[n])]
                              ELSE EmptyDict]
    ELSE [current_total |-> total, candidate_votes |-> cv]

\* --------------------------------------------------------------- transport
\* What session.get returns once the HTTP-layer retries are over: an
\* exception, or a response with a status outside the retried ones.
RaisedResponse == [exc |-> TRUE, status |-> 0, text |-> BlankBody]

Response(status, text) == [exc |-> FALSE, status |-> status, text |-> text]

Responses ==
    {RaisedResponse}
        \cup {Response(200, b) : b \in Bodies}
        \cup {Response(s, Text(<<E("Abc", "50")>>)) : s \in {201, 403}}

DiskOutcomes == {"ok", "unopened", "truncated"}

\* r.status_code == 200 and r.text.strip()
Accepted(r) == ~r.exc /\ r.status = 200 /\ ~r.text.blank

\* Path(...).write_text(text): the file after it.
write_text(file, text, disk) ==
    CASE disk = "ok"        -> [exists |-> TRUE, text |-> text]
      [] disk = "unopened"  -> file
      [] disk = "truncated" -> [exists |-> TRUE, text |-> BlankBody]

\* One request of fetch_raw: the endpoint asked and what it answered.
Asked(endpoint, answer) == [endpoint |-> endpoint, answer |-> answer]

\* fetch_raw() given what the two endpoints answer and how the two writes of
\* dumps/raw_latest.txt go: whether it raised, the text returned, the dump
\* file and the endpoints contacted. Any exception in the primary path, the
\* write's OSError included, is caught and leads to the proxy.
fetch_raw(primary, disk1, proxy, disk2, dump) ==
    IF Accepted(primary) /\ disk1 = "ok"
    THEN [raised |-> FALSE, text |-> primary.text,
          dump |-> write_text(dump, primary.text, disk1),
          contacted |-> <<Asked("real", primary)>>]
    ELSE LET dump1 == IF Accepted(primary)
                      THEN write_text(dump, primary.text, disk1) ELSE dump
         IN  IF ~Accepted(proxy)
             THEN [raised |-> TRUE, text |-> BlankBody, dump |-> dump1,
                   contacted |-> <<Asked("real", primary), Asked("proxy", proxy)>>]
             ELSE [raised |-> disk2 # "ok", text |-> proxy.text,
                   dump |-> write_text(dump1, proxy.text, disk2),
                   contacted |-> <<Asked("real", primary), Asked("proxy", proxy)>>]

\* ------------------------------------------------------------------- state
VARIABLES
    pc,               \* where main() stands: "start", "fetch", "extract",
                      \* "calibrate", "log", "save", "sleep"; "stopped" after
                      \* a KeyboardInterrupt, "killed" when the process died
    current_total,    \* the global current_total
    candidate_votes,  \* the global candidate_votes
    timestamp,        \* main's timestamp: the number of the iteration
    raw,              \* main's raw
    candidates_data,  \* main's candidates_data
    results,          \* main's results
    csv_file,         \* yvote_v3_log.csv
    state_file,       \* state_v3.json
    dump_file,        \* dumps/raw_latest.txt
    contacted,        \* the requests fetch_raw sent, in order, each with its
                      \* answer, until its result is used
    outcome,          \* how the current iteration went so far
    run,              \* how many times the process was started again
    run_start,        \* the value of timestamp when this run started
    cycle_start,      \* globals and files when the current iteration began
    emitted,          \* per name, the row last returned by the calibrator
                      \* in this run
    slept,            \* whether time.sleep ran since the last fetch
    stop_from,        \* where a KeyboardInterrupt found main
    stop_saved,       \* whether the KeyboardInterrupt handler ran save_state
    faults,           \* how many file operations have failed so far
    calibrated        \* the last calibration of this run that returned: its
                      \* iteration and current_total as it began

vars == <<pc, current_total, candidate_votes, timestamp, raw, candidates_data,
          results, csv_file, state_file, dump_file, contacted, outcome, run,
          run_start, cycle_start, emitted, slept, stop_from, stop_saved, faults,
          calibrated>>

locals == <<timestamp, raw, candidates_data, results>>
globals == <<current_total, candidate_votes>>
files == <<csv_file, state_file, dump_file>>
ghosts == <<run, run_start, cycle_start, emitted, slept, stop_from, stop_saved,
            calibrated>>

\* No calibration has returned in this run.
NotCalibrated == [timestamp |-> 0, total |-> 0]

\* The ways a file operation may go, and the failures each one counts for.
Cost(disk) == IF disk = "ok" THEN 0 ELSE 1
Affordable(n) == faults + n <= MaxFaults

\* The snapshot files the process may find when it first starts.
SnapshotInputs ==
    { AbsentSnapshot,
      Snapshot(1001, EmptyDict),
      Snapshot(1001, [n \in {"Abc"} |-> 500]),
      Snapshot(BadValue, EmptyDict),
      Snapshot(1001, BadMap),
      [Snapshot(0, [n \in {"Bo", "ABC"} |->
                       IF n = "Bo" THEN Infinity ELSE BadValue])
          EXCEPT !.has_total = FALSE] }

Memory == [current_total |-> current_total, candidate_votes |-> candidate_votes,
           csv_file |-> csv_file, state_file |-> state_file]

Init ==
    /\ pc = "start"
    /\ current_total = INITIAL_TOTAL_ESTIMATE
    /\ candidate_votes = EmptyDict
    /\ timestamp = 0
    /\ raw = BlankBody
    /\ candidates_data = <<>>
    /\ results = <<>>
    /\ csv_file = [exists |-> FALSE, rows |-> <<>>]
    /\ state_file \in SnapshotInputs
    /\ dump_file = [exists |-> FALSE, text |-> BlankBody]
    /\ contacted = <<>>
    /\ outcome = "none"
    /\ run = 0
    /\ run_start = 0
    /\ cycle_start = [current_total |-> INITIAL_TOTAL_ESTIMATE,
                      candidate_votes |-> EmptyDict,
                      csv_file |-> [exists |-> FALSE, rows |-> <<>>],
                      state_file |-> state_file]
    /\ emitted = EmptyDict
    /\ slept = TRUE
    /\ stop_from = "none"
    /\ stop_saved = FALSE
    /\ faults = 0
    /\ calibrated = NotCalibrated

\* AfterException when the exception ends the loop.
AfterExceptionLeaves == "stopped"

\* Where an exception caught by "except Exception" leaves main: the handler
\* prints and the loop goes on to time.sleep.
AfterException == "sleep"

\* AfterContinue when the cycle goes on with an empty list.
AfterContinueCalibrates == "calibrate"

\* Where "continue" leaves main when no candidate was found: the top of the
\* loop, time.sleep skipped.
AfterContinue == "fetch"

\* ----------------------------------------------------------------- actions
\* main: load_state()
LoadState ==
    /\ pc = "start"
    /\ LET l == load_state(current_total, candidate_votes, state_file)
       IN  /\ current_total' = l.current_total
           /\ candidate_votes' = l.candidate_votes
    /\ pc' = "fetch"
    /\ UNCHANGED <<locals, files, contacted, outcome, ghosts, faults>>

\* main: timestamp = datetime.now(); raw = fetch_raw()
FetchRaw ==
    /\ pc = "fetch"
    /\ timestamp < MaxCycles
    /\ timestamp' = timestamp + 1
    /\ cycle_start' = Memory
    /\ slept' = FALSE
    /\ \E primary \in Responses, disk1 \in DiskOutcomes :
         /\ Accepted(primary) \/ disk1 = "ok"
         /\ \E proxy \in Responses, disk2 \in DiskOutcomes :
              /\ (Accepted(primary) /\ disk1 = "ok")
                    => (proxy = RaisedResponse /\ disk2 = "ok")
              /\ Accepted(proxy) \/ disk2 = "ok"
              /\ Affordable(Cost(disk1) + Cost(disk2))
              /\ faults' = faults + Cost(disk1) + Cost(disk2)
              /\ LET f == fetch_raw(primary, disk1, proxy, disk2, dump_file)
                 IN  /\ dump_file' = f.dump
                     /\ contacted' = f.contacted
                     /\ IF f.raised
                        THEN /\ raw' = raw
                             /\ outcome' = "fetch_error"
                             /\ pc' = AfterException
                        ELSE /\ raw' = f.text
                             /\ outcome' = "running"
                             /\ pc' = "extract"
    /\ UNCHANGED <<globals, candidates_data, results, csv_file, state_file,
                   run, run_start, emitted, stop_from, stop_saved, calibrated>>

\* main: candidates_data = extract_ratiovotes(raw); if not ...: continue
Extract ==
    /\ pc = "extract"
    /\ \E found \in {extract_ratiovotes(raw)} :
           /\ candidates_data' = found
           /\ IF found = <<>>
              THEN /\ outcome' = "empty"
                   /\ pc' = AfterContinue
              ELSE /\ outcome' = outcome
                   /\ pc' = "calibrate"
    /\ contacted' = <<>>
    /\ UNCHANGED <<globals, timestamp, raw, results, files, ghosts, faults>>

EmitRow(e, row) == DictSet(e, row.name, [votes |-> row.votes, percent |-> row.percent])

RECURSIVE Emit(_, _, _)
Emit(e, rows, i) == IF i = 0 THEN e ELSE EmitRow(Emit(e, rows, i - 1), rows[i])

\* main: results = calibrate_and_calculate_votes(candidates_data)
Calibrate ==
    /\ pc = "calibrate"
    /\ \E c \in {calibrate_and_calculate_votes(candidates_data, current_total,
                                                candidate_votes)} :
           /\ current_total' = c.current_total
           /\ candidate_votes' = c.candidate_votes
           /\ IF c.raised
              THEN /\ results' = results
                   /\ emitted' = emitted
                   /\ calibrated' = calibrated
                   /\ outcome' = "calibrate_error"
                   /\ pc' = AfterException
              ELSE /\ results' = c.result
                   /\ emitted' = Emit(emitted, c.result, Len(c.result))
                   /\ calibrated' = [timestamp |-> timestamp,
                                     total |-> current_total]
                   /\ outcome' = outcome
                   /\ pc' = "log"
    /\ UNCHANGED <<timestamp, raw, candidates_data, files, contacted, run,
                   run_start, cycle_start, slept, stop_from, stop_saved, faults>>

\* main: log_to_csv(results, current_total, timestamp)
LogToCsv ==
    /\ pc = "log"
    /\ \E written \in -2..Len(results) :
         LET l == log_to_csv(results, current_total, timestamp, csv_file, written)
             cost == IF l.raised THEN 1 ELSE 0
         IN  /\ Affordable(cost)
             /\ faults' = faults + cost
             /\ csv_file' = l.file
             /\ IF l.raised
                THEN /\ outcome' = "log_error"
                     /\ pc' = AfterException
                ELSE /\ outcome' = outcome
                     /\ pc' = "save"
    /\ UNCHANGED <<globals, locals, state_file, dump_file, contacted, ghosts>>

\* main: save_state()
SaveState ==
    /\ pc = "save"
    /\ \E disk \in DiskOutcomes :
         LET s == save_state(current_total, candidate_votes, state_file, disk)
         IN  /\ Affordable(Cost(disk))
             /\ faults' = faults + Cost(disk)
             /\ state_file' = s.file
             /\ IF s.raised
                THEN /\ outcome' = "save_error"
                     /\ pc' = AfterException
                ELSE /\ outcome' = "ok"
                     /\ pc' = "sleep"
    /\ UNCHANGED <<globals, locals, csv_file, dump_file, contacted, ghosts>>

\* main: time.sleep(INTERVAL), then the next iteration
Sleep ==
    /\ pc = "sleep"
    /\ pc' = "fetch"
    /\ slept' = TRUE
    /\ UNCHANGED <<globals, locals, files, contacted, outcome, run, run_start,
                   cycle_start, emitted, stop_from, stop_saved, faults,
                   calibrated>>

\* The process ends: its memory is gone, the files stay.
Exit ==
    /\ current_total' = INITIAL_TOTAL_ESTIMATE
    /\ candidate_votes' = EmptyDict
    /\ raw' = BlankBody
    /\ candidates_data' = <<>>
    /\ results' = <<>>
    /\ contacted' = <<>>
    /\ emitted' = EmptyDict
    /\ calibrated' = NotCalibrated
    /\ slept' = TRUE
    /\ cycle_start' = [current_total |-> INITIAL_TOTAL_ESTIMATE,
                       candidate_votes |-> EmptyDict,
                       csv_file |-> csv_file, state_file |-> state_file']

\* The statements of main that stand inside the try block.
InTry == {"fetch", "extract", "calibrate", "log", "save"}

\* Whether a KeyboardInterrupt raised while main stands at p reaches the
\* "except KeyboardInterrupt" clause, which calls save_state() and breaks.
HandlerRuns(p) == p \in InTry

\* Ctrl+C. Inside the try block the handler saves the state and leaves the
\* loop (an exception of that save_state ends the process as well); outside
\* it, in load_state or time.sleep, nothing catches it.
KeyboardInterrupt ==
    /\ pc \in InTry \cup {"start", "sleep"}
    /\ stop_from' = pc
    /\ pc' = "stopped"
    /\ outcome' = "interrupted"
    /\ IF HandlerRuns(pc)
       THEN /\ stop_saved' = TRUE
            /\ \E disk \in DiskOutcomes :
                 /\ Affordable(Cost(disk))
                 /\ faults' = faults + Cost(disk)
                 /\ state_file' = save_state(current_total, candidate_votes,
                                             state_file, disk).file
       ELSE /\ stop_saved' = FALSE
            /\ state_file' = state_file
            /\ faults' = faults
    /\ Exit
    /\ UNCHANGED <<timestamp, csv_file, dump_file, run, run_start>>

\* The process is killed or the machine goes down: nothing more runs. A
\* kill during save_state may leave the snapshot half written.
Kill ==
    /\ pc \in InTry \cup {"start", "sleep"}
    /\ pc' = "killed"
    /\ outcome' = "interrupted"
    /\ \/ state_file' = state_file
       \/ pc = "save" /\ state_file' = GarbageSnapshot
    /\ Exit
    /\ UNCHANGED <<timestamp, csv_file, dump_file, run, run_start, stop_from,
                   stop_saved, faults>>

\* The program is started again: module-level initialisation, then main.
Restart ==
    /\ pc \in {"stopped", "killed"}
    /\ run < MaxRestarts
    /\ run' = run + 1
    /\ run_start' = timestamp
    /\ pc' = "start"
    /\ outcome' = "none"
    /\ stop_from' = "none"
    /\ stop_saved' = FALSE
    /\ UNCHANGED <<globals, locals, files, contacted, cycle_start, emitted,
                   slept, faults, calibrated>>

Poller == LoadState \/ FetchRaw \/ Extract \/ Calibrate \/ LogToCsv
            \/ SaveState \/ Sleep

Next == Poller \/ KeyboardInterrupt \/ Kill \/ Restart

Spec == Init /\ [][Next]_vars

\* time.sleep(INTERVAL) returns: a poller standing in its sleep goes on to
\* the next iteration unless a Ctrl+C or a kill ends it first.
FairSpec == Spec /\ WF_vars(Sleep)

\* ------------------------------------------------- the extractor on its own
\* The names and the ratioVotes digits a match may carry: two casings of one
\* name, a name with a trailing blank, and digits float() refuses.
EntryNames == {"Abc", "ABC", "Bo "}

EntryPcts == {"0", "40", "50", "1.2.3"}

Entries == {E(n, p) : n \in EntryNames, p \in EntryPcts}

\* The bodies with at most MaxFound matches.
ExtractorTexts ==
    {Text(found) : found \in UNION {[1..n -> Entries] : n \in 0..MaxFound}}

\* main in its first cycle, no snapshot found, as fetch_raw has just returned
\* the primary endpoint's body.
ExtractorInit ==
    /\ pc = "extract"
    /\ current_total = INITIAL_TOTAL_ESTIMATE
    /\ candidate_votes = EmptyDict
    /\ timestamp = 1
    /\ raw \in ExtractorTexts
    /\ candidates_data = <<>>
    /\ results = <<>>
    /\ csv_file = [exists |-> FALSE, rows |-> <<>>]
    /\ state_file = AbsentSnapshot
    /\ dump_file = [exists |-> TRUE, text |-> raw]
    /\ contacted = <<Asked("real", Response(200, raw))>>
    /\ outcome = "running"
    /\ run = 0
    /\ run_start = 0
    /\ cycle_start = [current_total |-> INITIAL_TOTAL_ESTIMATE,
                      candidate_votes |-> EmptyDict,
                      csv_file |-> [exists |-> FALSE, rows |-> <<>>],
                      state_file |-> AbsentSnapshot]
    /\ emitted = EmptyDict
    /\ slept = FALSE
    /\ stop_from = "none"
    /\ stop_saved = FALSE
    /\ faults = 0
    /\ calibrated = NotCalibrated

\* extract_ratiovotes applied to each of these bodies.
ExtractorSpec == ExtractorInit /\ [][Extract]_vars

\* ------------------------------------------------------------------ claims
Terminated == {"stopped", "killed"}

\* A step of Calibrate: the call ran to its return or to its exception.
CalibrateStep == pc = "calibrate" /\ pc' \notin Terminated

\* A step of Calibrate in which the call returned its rows.
CalibrateReturns == pc = "calibrate" /\ pc' = "log"

RowsOf(file) == {file.rows[i] : i \in {k \in 1..Len(file.rows) : file.rows[k].kind = "data"}}

\* C1: within one run, a calibrate_and_calculate_votes call never lowers the
\* votes stored in candidate_votes for a name, and the votes it emits for a
\* name are at least the votes emitted for that name in every earlier cycle
\* (emitted holds the latest of them, itself at least the ones before).
C1_VotesNeverDecrease ==
    [][CalibrateStep =>
          /\ \A n \in DOMAIN candidate_votes :
                /\ n \in DOMAIN candidate_votes'
                /\ Leq(candidate_votes[n], candidate_votes'[n])
          /\ CalibrateReturns =>
                \A i \in 1..Len(results') :
                    results'[i].name \in DOMAIN emitted =>
                        Leq(emitted[results'[i].name].votes, results'[i].votes)]_vars

\* C1 witness: a second cycle has emitted, for a name emitted before, more
\* votes than its percent of the cycle's starting total gives: the floor held.
C1_FloorApplied ==
    /\ pc = "log"
    /\ timestamp >= 2
    /\ \E i \in 1..Len(results) :
          /\ IsNumber(results[i].votes)
          /\ results[i].votes > NaiveVotes(results[i].percent, cycle_start.current_total)

\* C2: within one run current_total never decreases: a calibration leaves it
\* at least as high as it was (either branch, and when the percents sum to
\* 0), and no other step of the loop after load_state changes it.
C2_TotalNeverDecreases ==
    [][/\ CalibrateStep => Leq(current_total, current_total')
       /\ (pc \in {"fetch", "extract", "log", "save", "sleep"} /\ pc' \notin Terminated)
              => current_total' = current_total]_vars

\* C2 witness: a calibration whose implied total was below current_total has
\* returned (the else branch), the total kept.
C2_TotalKept ==
    /\ pc = "log"
    /\ IsNumber(current_total)
    /\ TotalPercentages(results) > 0
    /\ IsNumber(TotalVotes(results))
    /\ ImpliedTotal(TotalVotes(results), TotalPercentages(results)) < current_total

\* C3 (as claimed): the vote floor is keyed by the uppercased name: the votes
\* emitted for a candidate are at least those emitted earlier for it under
\* any casing of its name, and the emitted names hold one casing of each.
C3_FloorKeyedByUppercase ==
    [][CalibrateReturns =>
          /\ \A i \in 1..Len(results'), m \in DOMAIN emitted :
                Upper(m) = Upper(results'[i].name) =>
                    Leq(emitted[m].votes, results'[i].votes)
          /\ \A a, b \in DOMAIN emitted' : Upper(a) = Upper(b) => a = b]_vars

\* The share-drop case for candidates_data[i] as a calibration starts: the
\* name was emitted with a higher percent, and this percent of current_total
\* is below the votes stored for it.
ShareDrop(i) ==
    LET c == candidates_data[i]
    IN  /\ c.name \in DOMAIN emitted
        /\ c.percent < emitted[c.name].percent
        /\ IsNumber(candidate_votes[c.name])
        /\ NaiveVotes(c.percent, current_total) < candidate_votes[c.name]

\* C4 (as claimed): in the share-drop case the votes emitted equal the votes
\* stored before, and when the candidate is the only one observed
\* current_total strictly increases, to round(votes / percent * 100).
C4_ShareDropRaisesTotal ==
    [][CalibrateReturns =>
          \A i \in 1..Len(candidates_data) :
              ShareDrop(i) =>
                  /\ \E k \in 1..Len(results') :
                        /\ results'[k].name = candidates_data[i].name
                        /\ results'[k].votes = candidate_votes[candidates_data[i].name]
                  /\ Len(candidates_data) = 1 =>
                        /\ current_total' > current_total
                        /\ current_total' =
                              Round(candidate_votes[candidates_data[i].name] * 100,
                                    candidates_data[i].percent)]_vars

\* C4 (amended): the same, the total rising only when the percent observed
\* is above 0 (a sole candidate at 0 percent leaves current_total as it is).
C4_ShareDropRaisesTotalAbove0 ==
    [][CalibrateReturns =>
          \A i \in 1..Len(candidates_data) :
              ShareDrop(i) =>
                  /\ \E k \in 1..Len(results') :
                        /\ results'[k].name = candidates_data[i].name
                        /\ results'[k].votes = candidate_votes[candidates_data[i].name]
                  /\ (Len(candidates_data) = 1 /\ candidates_data[i].percent > 0) =>
                        /\ current_total' > current_total
                        /\ current_total' =
                              Round(candidate_votes[candidates_data[i].name] * 100,
                                    candidates_data[i].percent)
                  /\ (Len(candidates_data) = 1 /\ candidates_data[i].percent = 0) =>
                        current_total' = current_total]_vars

\* C4 witness: the sole candidate's percent fell from 50 to 40, its 500 votes
\* were kept and the total was raised from 1001 to 1250.
C4_ShareDropSeen ==
    /\ pc = "log"
    /\ cycle_start.current_total = 1001
    /\ current_total = 1250
    /\ results = <<[rank |-> 1, name |-> "Abc", percent |-> 40, votes |-> 500]>>

Errors == {"fetch_error", "calibrate_error", "log_error", "save_error"}

\* C5: no error ends the poll loop: main stops only where a
\* KeyboardInterrupt found it, and after an exception of fetch_raw,
\* calibrate_and_calculate_votes, log_to_csv or save_state the loop comes
\* back to the top of the loop, for the next fetch, unless it is stopped or
\* killed from outside first.
C5_ErrorsNeverEndTheLoop ==
    /\ [][pc' = "stopped" => (pc # "stopped" /\ stop_from' = pc
                                /\ outcome' = "interrupted")]_vars
    /\ (outcome \in Errors) ~> (pc = "fetch" \/ pc \in Terminated)

\* C5 witness: a save_state failure was caught and the loop stands at the
\* next fetch.
C5_LoopGoesOnAfterError ==
    /\ pc = "fetch"
    /\ outcome = "save_error"
    /\ timestamp >= 1

\* C6 (as claimed): a fetch is issued only after time.sleep ran since the
\* fetch before it, also when the cycle before failed or found no candidate.
C6_SleepBetweenFetches ==
    [][timestamp' > timestamp => slept]_vars

\* C7 (as claimed): when a KeyboardInterrupt ends the poller during a fetch,
\* extraction, calibration, persistence or sleep, save_state has run.
C7_StopAlwaysSaves ==
    (pc = "stopped" /\ stop_from # "start") => stop_saved

\* C8 (as claimed): a stop ends the poller only at a cycle boundary, before
\* the fetch of a cycle, never once the cycle has fetched (so never between
\* calibration and the log append).
C8_StopOnlyAtCycleBoundary ==
    pc = "stopped" => stop_from \in {"start", "sleep", "fetch"}

\* The last data row of the log written before this run started, for a name.
LastBefore(name) ==
    LET at == {k \in 1..Len(csv_file.rows) :
                  /\ csv_file.rows[k].kind = "data"
                  /\ csv_file.rows[k].timestamp <= run_start
                  /\ csv_file.rows[k].name = name}
    IN  IF at = {} THEN {} ELSE {csv_file.rows[CHOOSE k \in at : \A j \in at : j <= k]}

LastTotalBefore ==
    LET at == {k \in 1..Len(csv_file.rows) :
                  /\ csv_file.rows[k].kind = "data"
                  /\ csv_file.rows[k].timestamp <= run_start}
    IN  IF at = {} THEN {} ELSE {csv_file.rows[CHOOSE k \in at : \A j \in at : j <= k]}

\* C9 (as claimed): after a restart, the rows logged by the first cycle carry
\* votes at least the last votes logged for the same name before the restart
\* and a total at least the last total logged before it.
C9_MonotoneAcrossRestart ==
    \A row \in RowsOf(csv_file) :
        (run > 0 /\ row.timestamp = run_start + 1) =>
            /\ \A old \in LastBefore(row.name) : Leq(old.votes, row.votes)
            /\ \A old \in LastTotalBefore : Leq(old.total, row.total)

FailedCycle == {"fetch_error", "empty", "calibrate_error"}

\* C10 (as claimed): a cycle that failed in fetch_raw, found no candidate or
\* failed in the calibration has appended no row, has not written the
\* snapshot and has left current_total and candidate_votes as they were when
\* it began.
C10_FailedCycleChangesNothing ==
    outcome \in FailedCycle =>
        /\ csv_file = cycle_start.csv_file
        /\ state_file = cycle_start.state_file
        /\ current_total = cycle_start.current_total
        /\ candidate_votes = cycle_start.candidate_votes

\* C11 (as claimed): the snapshot is written in a cycle only by the save_state
\* that follows the cycle's fetch, extraction, calibration and log append (main
\* stands at its save_state call), or by the final save of a stop that arrives
\* before the cycle's fetch has returned; a cycle that fails or is abandoned
\* earlier leaves the snapshot file as it was.
C11_SnapshotOnlyAfterSuccessfulCycle ==
    [][state_file' # state_file =>
          \/ pc = "save" /\ outcome = "running"
          \/ pc = "fetch" /\ pc' = "stopped"]_vars

\* A snapshot that parses to a JSON object but holds, for current_total or for
\* a value of candidate_votes (or for candidate_votes itself), something that
\* is no number.
WrongType(file) ==
    /\ file.kind = "object"
    /\ \/ file.has_total /\ file.current_total.json # "number"
       \/ /\ file.has_votes
          /\ \E n \in DOMAIN file.candidate_votes :
                file.candidate_votes[n].json # "number"

\* C12 (as claimed): when the snapshot found at startup is absent, unparseable,
\* no object or holds values of the wrong type, load_state leaves
\* current_total at INITIAL_TOTAL_ESTIMATE and candidate_votes empty.
C12_MalformedSnapshotIgnored ==
    [][(pc = "start" /\ pc' = "fetch"
            /\ (state_file.kind # "object" \/ WrongType(state_file)))
          => /\ current_total' = INITIAL_TOTAL_ESTIMATE
             /\ candidate_votes' = EmptyDict]_vars

\* What load_state makes of a file in a freshly started process.
Loaded(file) == load_state(INITIAL_TOTAL_ESTIMATE, EmptyDict, file)

\* C13: snapshot round trip. In every reachable state, the file a successful
\* save_state writes is read back by load_state as the same current_total and
\* the same candidate_votes map (same keys, same values); and whenever main's
\* save_state has just succeeded, load_state on the file as it stands yields
\* the current_total and candidate_votes in memory.
C13_SnapshotRoundTrip ==
    /\ LET l == Loaded(save_state(current_total, candidate_votes, state_file, "ok").file)
       IN  /\ l.current_total = current_total
           /\ l.candidate_votes = candidate_votes
    /\ (pc = "sleep" /\ outcome = "ok") =>
          /\ Loaded(state_file).current_total = current_total
          /\ Loaded(state_file).candidate_votes = candidate_votes

\* C13 witness: a restarted process has loaded the snapshot its earlier run
\* saved, a raised total and a map of two names, one with an infinite value.
C13_SavedThenLoaded ==
    /\ pc = "fetch"
    /\ run > 0
    /\ state_file = Snapshot(current_total, candidate_votes)
    /\ IsNumber(current_total)
    /\ current_total # INITIAL_TOTAL_ESTIMATE
    /\ \E n, m \in DOMAIN candidate_votes :
          IsNumber(candidate_votes[n]) /\ candidate_votes[m] = Infinity

\* A step in which fetch_raw ran to its return or to its exception.
FetchStep == pc = "fetch" /\ timestamp' > timestamp

FetchReturns == FetchStep /\ pc' = "extract"

FetchRaises == FetchStep /\ outcome' = "fetch_error"

\* A success as the specification counts it: a 2xx status, a non-empty body.
Success2xx(r) == ~r.exc /\ r.status \in 200..299 /\ ~r.text.blank

\* The primary request failed: an exception once the retries are over, a
\* status that is no success, or an empty or whitespace body.
RequestFailed(r) == r.exc \/ r.status \notin 200..299 \/ r.text.blank

\* C14 (as claimed): the fallback endpoint is contacted only after the
\* primary request has failed, and when the primary request failed and the
\* fallback answers 200 with a non-empty body, fetch_raw returns the
\* fallback's body and does not raise.
C14_FallbackBodyReturned ==
    [][FetchStep =>
          /\ Len(contacted') = 2 => RequestFailed(contacted'[1].answer)
          /\ (/\ Len(contacted') = 2
              /\ RequestFailed(contacted'[1].answer)
              /\ Accepted(contacted'[2].answer))
                => (FetchReturns /\ raw' = contacted'[2].answer.text)]_vars

\* C15 (as claimed): fetch_raw raises only when both paths are exhausted: it
\* does not raise when an endpoint it contacted answered 200 with a non-empty
\* body, a failing write of the debug artifact included.
C15_RaisesOnlyWhenExhausted ==
    [][FetchRaises =>
          \A i \in 1..Len(contacted') : ~Accepted(contacted'[i].answer)]_vars

\* C16 (as claimed): when the primary endpoint answers with any 2xx status and
\* a non-empty body (and no file operation fails), fetch_raw returns that body
\* and the fallback endpoint is not contacted.
C16_Primary2xxIsSuccess ==
    [][(FetchStep /\ faults' = faults /\ Success2xx(contacted'[1].answer)) =>
          /\ FetchReturns
          /\ raw' = contacted'[1].answer.text
          /\ Len(contacted') = 1]_vars

\* C17 (as claimed): when fetch_raw returns a body, dumps/raw_latest.txt holds
\* exactly that body; when fetch_raw raises because the primary path and then
\* the fallback path failed (the fallback's answer was refused), the file is
\* left as it was.
C17_ArtifactHoldsReturnedBody ==
    [][FetchStep =>
          /\ FetchReturns => dump_file' = [exists |-> TRUE, text |-> raw']
          /\ (FetchRaises /\ ~Accepted(contacted'[2].answer))
                => dump_file' = dump_file]_vars

\* A step in which extract_ratiovotes returned.
ExtractStep == pc = "extract" /\ pc' \in {"calibrate", "fetch"}

\* The uppercased name of a match, and the matches and observations of a key.
KeyOf(e) == Upper(Strip(e.name))

Shared(found, key) == {i \in 1..Len(found) : KeyOf(found[i]) = key}

Parsed(found) == {i \in 1..Len(found) : Float(found[i].pct) # BadValue}

Obs(result, key) == {k \in 1..Len(result) : Upper(result[k].name) = key}

\* One observation for the key, its percent the highest of the parseable
\* percentages among the key's matches.
OneWithMaximum(found, result, key) ==
    /\ Cardinality(Obs(result, key)) = 1
    /\ \A k \in Obs(result, key) :
          /\ \E i \in Shared(found, key) \cap Parsed(found) :
                Float(found[i].pct) = result[k].percent
          /\ \A i \in Shared(found, key) \cap Parsed(found) :
                Float(found[i].pct) <= result[k].percent

\* C18 (as claimed): whenever several matched entries share an uppercased
\* name, the extractor returns exactly one observation for that name, with
\* the maximum of those entries' percentages.
C18_DedupKeepsHighest ==
    [][ExtractStep =>
          \A i \in 1..Len(raw.found) :
              Cardinality(Shared(raw.found, KeyOf(raw.found[i]))) >= 2 =>
                  OneWithMaximum(raw.found, candidates_data', KeyOf(raw.found[i]))]_vars

\* C18 (amended): the same for the names of which at least one entry has a
\* parseable percentage, the maximum taken over the parseable ones in
\* whatever order they occur; a name whose entries are all unparseable gets
\* no observation; no name ever gets two.
C18_DedupKeepsHighestParsed ==
    [][ExtractStep =>
          /\ \A i \in 1..Len(raw.found) :
                LET key == KeyOf(raw.found[i])
                IN  IF Shared(raw.found, key) \cap Parsed(raw.found) # {}
                    THEN OneWithMaximum(raw.found, candidates_data', key)
                    ELSE Obs(candidates_data', key) = {}
          /\ \A k \in 1..Len(candidates_data') :
                Cardinality(Obs(candidates_data', Upper(candidates_data'[k].name))) = 1]_vars

\* C18 witness: of two entries for ABC, 50 percent met first and 40 percent
\* under another casing met second, the one observation carries 50.
C18_HigherMetFirstKept ==
    /\ pc = "calibrate"
    /\ raw.found = <<E("ABC", "50"), E("Abc", "40")>>
    /\ candidates_data = <<[name |-> "ABC", percent |-> 50, rank |-> 1]>>

\* The place in the input where a key's name is first met, and where the
\* key is first met with a percentage float() accepts.
FirstMet(found, key) ==
    CHOOSE i \in Shared(found, key) : \A j \in Shared(found, key) : i <= j

FirstParsed(found, key) ==
    CHOOSE i \in Shared(found, key) \cap Parsed(found) :
        \A j \in Shared(found, key) \cap Parsed(found) : i <= j

\* The list is in non-increasing order of percent and its ranks are 1..N in
\* list order.
SortedAndRanked(result) ==
    /\ \A k \in 1..(Len(result) - 1) : result[k].percent >= result[k + 1].percent
    /\ \A k \in 1..Len(result) : result[k].rank = k

\* C19 (as claimed): the list returned is sorted by percent, non-increasing,
\* ranked 1..N in list order, and observations of equal percent stand in the
\* order in which their uppercased names were first met in the input.
C19_OrderedByPercentThenEncounter ==
    [][ExtractStep =>
          /\ SortedAndRanked(candidates_data')
          /\ \A a, b \in 1..Len(candidates_data') :
                (a < b /\ candidates_data'[a].percent = candidates_data'[b].percent) =>
                    FirstMet(raw.found, Upper(candidates_data'[a].name))
                        < FirstMet(raw.found, Upper(candidates_data'[b].name))]_vars

\* C19 (amended): the same, observations of equal percent standing in the
\* order in which their uppercased names were first met with a parseable
\* percentage (an entry whose digits float() refuses does not count as met).
C19_OrderedByPercentThenFirstParsed ==
    [][ExtractStep =>
          /\ SortedAndRanked(candidates_data')
          /\ \A a, b \in 1..Len(candidates_data') :
                (a < b /\ candidates_data'[a].percent = candidates_data'[b].percent) =>
                    FirstParsed(raw.found, Upper(candidates_data'[a].name))
                        < FirstParsed(raw.found, Upper(candidates_data'[b].name))]_vars

\* C19 witness: ABC is met first, unparseable, then Bo and ABC at 40 percent
\* each: Bo, stored first, is ranked 1 and ABC 2.
C19_TieInStoredOrder ==
    /\ pc = "calibrate"
    /\ raw.found = <<E("ABC", "1.2.3"), E("Bo ", "40"), E("ABC", "40")>>
    /\ candidates_data = <<[name |-> "Bo", percent |-> 40, rank |-> 1],
                           [name |-> "ABC", percent |-> 40, rank |-> 2]>>

\* The text holds no candidate entry: no match, or matches whose numeric
\* field float() refuses.
NoCandidateEntry(text) ==
    \A i \in 1..Len(text.found) : Float(text.found[i].pct) = BadValue

\* C20: on a text with no candidate entry extract_ratiovotes returns the empty
\* list (it does not raise), and main then runs no calibration, log append or
\* save for the cycle: current_total, candidate_votes, the log and the
\* snapshot are, and stay until the next cycle, as they were when the cycle
\* began.
C20_EmptyExtractionIsNoOp ==
    /\ [][(ExtractStep /\ NoCandidateEntry(raw)) =>
             /\ candidates_data' = <<>>
             /\ outcome' = "empty"
             /\ pc' \notin {"calibrate", "log", "save"}
             /\ UNCHANGED <<current_total, candidate_votes, csv_file, state_file>>]_vars
    /\ [](outcome = "empty" =>
             /\ current_total = cycle_start.current_total
             /\ candidate_votes = cycle_start.candidate_votes
             /\ csv_file = cycle_start.csv_file
             /\ state_file = cycle_start.state_file)

\* C20 witness: after a cycle that logged rows and saved, a second cycle has
\* fetched a text whose only entry is unparseable and has come back to the
\* top of the loop.
C20_EmptyCycleSeen ==
    /\ outcome = "empty"
    /\ timestamp = 2
    /\ raw = Text(<<E("Abc", "1.2.3")>>)
    /\ candidates_data = <<>>
    /\ Len(csv_file.rows) >= 2
    /\ state_file.kind = "object"
    /\ candidate_votes # EmptyDict

\* A step in which log_to_csv ran to its return or to its exception.
LogStep == pc = "log" /\ pc' \notin Terminated

LogReturns == LogStep /\ pc' = "save"

\* The rows a step appended to the log.
Appended == SubSeq(csv_file'.rows, Len(csv_file.rows) + 1, Len(csv_file'.rows))

\* The header row stands first in the file and nowhere else.
HeaderOnceAndFirst(rows) ==
    /\ rows # <<>> => rows[1] = HeaderRow
    /\ \A k \in 2..Len(rows) : rows[k] # HeaderRow

\* C21 (as claimed): the log is append-only. No step of the poller changes
\* the rows already in the file (the old rows are a prefix of the new); a
\* log_to_csv call that returns has appended one row per element of results,
\* in order, after the header if it found the file absent; and at all times
\* the header row is the first row of the file and occurs once.
C21_LogAppendOnly ==
    /\ [][/\ Len(csv_file.rows) <= Len(csv_file'.rows)
          /\ SubSeq(csv_file'.rows, 1, Len(csv_file.rows)) = csv_file.rows
          /\ LogReturns =>
                Appended = (IF csv_file.exists THEN <<>> ELSE <<HeaderRow>>)
                              \o [i \in 1..Len(results) |->
                                     DataRow(timestamp, current_total, results[i])]]_vars
    /\ [](HeaderOnceAndFirst(csv_file.rows))

\* The data rows of the log written in the cycle of the given timestamp.
RowsOfCycle(file, t) == {row \in RowsOf(file) : row.timestamp = t}

\* C22: every row log_to_csv appends in a cycle carries current_total as that
\* cycle's calibration left it; so all the rows of the running cycle carry
\* one total, the one in memory since the calibration returned.
C22_RowsCarryCalibratedTotal ==
    /\ [][LogStep =>
             \A k \in 1..Len(Appended) :
                 Appended[k].kind = "data" =>
                     /\ Appended[k].total = current_total
                     /\ Appended[k].timestamp = timestamp]_vars
    /\ [][CalibrateReturns => RowsOfCycle(csv_file, timestamp) = {}]_vars
    /\ []((pc \in {"save", "sleep"} /\ outcome \in {"running", "ok", "save_error", "log_error"}) =>
             \A row \in RowsOfCycle(csv_file, timestamp) : row.total = current_total)

\* C22 witness: a cycle that started at a total of 1001 and adopted 1250 has
\* logged its row, which carries 1250.
C22_AdoptedTotalLogged ==
    /\ pc = "save"
    /\ cycle_start.current_total = 1001
    /\ current_total = 1250
    /\ RowsOfCycle(csv_file, timestamp) # {}
    /\ \A row \in RowsOfCycle(csv_file, timestamp) : row.total = 1250

\* The places in the log of the data rows written in this run.
RunRows == {k \in 1..Len(csv_file.rows) :
               /\ csv_file.rows[k].kind = "data"
               /\ csv_file.rows[k].timestamp > run_start}

\* C23 (as claimed): in one run the log holds one data row per observed
\* candidate for a cycle that succeeded and no row for a cycle that failed in
\* fetch_raw, in the extraction, in the calibration or in log_to_csv; and in
\* row order the total column and each candidate's votes column (a candidate
\* being its case-normalized name) never decrease.
C23_LogShape ==
    /\ outcome \in {"fetch_error", "empty", "calibrate_error", "log_error"}
          => RowsOfCycle(csv_file, timestamp) = {}
    /\ outcome = "ok" =>
          /\ Cardinality(RowsOfCycle(csv_file, timestamp)) = Len(candidates_data)
          /\ \A i \in 1..Len(candidates_data) :
                \E row \in RowsOfCycle(csv_file, timestamp) :
                    row.name = candidates_data[i].name
    /\ \A i, j \in RunRows :
          i < j =>
              /\ Leq(csv_file.rows[i].total, csv_file.rows[j].total)
              /\ Upper(csv_file.rows[i].name) = Upper(csv_file.rows[j].name)
                    => Leq(csv_file.rows[i].votes, csv_file.rows[j].votes)

\* The names observed in the cycle being calibrated.
Observed == {candidates_data[i].name : i \in 1..Len(candidates_data)}

\* C24: candidates are never deleted. No step of the loop after load_state
\* removes a key from candidate_votes; a calibration, whether it returns or
\* raises, leaves the votes stored for every name it did not observe as they
\* were, and the other steps leave the whole map as it was.
C24_CandidatesNeverDeleted ==
    [][(pc \in InTry \cup {"sleep"} /\ pc' \notin Terminated) =>
          \A n \in DOMAIN candidate_votes :
              /\ n \in DOMAIN candidate_votes'
              /\ (pc # "calibrate" \/ n \notin Observed)
                    => candidate_votes'[n] = candidate_votes[n]]_vars

\* C24 witness: the second cycle observed Abc only and has returned; Bo,
\* stored by the first cycle, is still there with the votes it had.
C24_UnobservedKept ==
    /\ pc = "log"
    /\ timestamp = 2
    /\ run = 0
    /\ "Bo" \in DOMAIN candidate_votes
    /\ "Bo" \in DOMAIN cycle_start.candidate_votes
    /\ IsNumber(candidate_votes["Bo"])
    /\ candidate_votes["Bo"] = cycle_start.candidate_votes["Bo"]
    /\ \A i \in 1..Len(results) : results[i].name # "Bo"

\* max(a, b) on votes, b being a stored value that may be infinite.
MaxVotes(a, b) == IF b = Infinity THEN Infinity ELSE IF b > a THEN b ELSE a

\* The row returned for the observation, if any.
RowFor(rows, name) == {k \in 1..Len(rows) : rows[k].name = name}

\* C25: whichever branch of the total update a calibration takes, the votes
\* it returns and stores for each observed candidate are
\* max(round(percent / 100 * T0), V0): T0 is current_total and V0 the votes
\* stored for the name (0 if none) as the call begins; round is half-to-even.
C25_VotesAreFloorOfNaive ==
    [][CalibrateReturns =>
          \A i \in 1..Len(candidates_data) :
              LET c  == candidates_data[i]
                  v0 == IF c.name \in DOMAIN candidate_votes
                        THEN candidate_votes[c.name] ELSE 0
                  v  == MaxVotes(Round(c.percent * current_total, 100), v0)
              IN  /\ RowFor(results', c.name) # {}
                  /\ \A k \in RowFor(results', c.name) : results'[k].votes = v
                  /\ c.name \in DOMAIN candidate_votes'
                  /\ candidate_votes'[c.name] = v]_vars

\* C25 witness: at a total of 1001, kept, Bo at 50 percent was given
\* round(500.5) = 500 votes and Abc at 40 percent round(400.4) = 400.
C25_BothRowsFromStartTotal ==
    /\ pc = "log"
    /\ cycle_start.current_total = 1001
    /\ current_total = 1001
    /\ results = <<[rank |-> 1, name |-> "Bo", percent |-> 50, votes |-> 500],
                   [rank |-> 2, name |-> "Abc", percent |-> 40, votes |-> 400]>>

\* The sums of steps 3: the votes returned and the percents observed.
VoteSum(rows) == SumSeq([k \in 1..Len(rows) |-> rows[k].votes])

PercentSum(data) == SumSeq([k \in 1..Len(data) |-> data[k].percent])

\* C26: a calibration that returns leaves current_total at
\* max(T0, implied_total), implied_total being
\* round(sum of the votes returned / sum of the percents observed * 100),
\* when the percents sum to more than 0, and at T0 when they sum to 0; T0 is
\* current_total as the call begins.
C26_TotalIsMaxOfImplied ==
    [][CalibrateReturns =>
          IF PercentSum(candidates_data) > 0
          THEN LET implied_total == Round(VoteSum(results') * 100,
                                          PercentSum(candidates_data))
               IN  current_total' = IF implied_total > current_total
                                    THEN implied_total ELSE current_total
          ELSE current_total' = current_total]_vars

\* C26 witness: at a total of 1001 with 500 votes stored for Abc, Bo at 50
\* percent and Abc at 40 percent were given 500 votes each and the total was
\* raised to round(1000 / 90 * 100) = 1111.
C26_ImpliedTotalAdopted ==
    /\ pc = "log"
    /\ cycle_start.current_total = 1001
    /\ current_total = 1111
    /\ results = <<[rank |-> 1, name |-> "Bo", percent |-> 50, votes |-> 500],
                   [rank |-> 2, name |-> "Abc", percent |-> 40, votes |-> 500]>>

\* C27: a calibration that returns gives one row per observed candidate,
\* with the rank and the percent of its observation, the rows in increasing
\* order of rank.
C27_OneRowPerObservationByRank ==
    [][CalibrateReturns =>
          /\ Len(results') = Len(candidates_data)
          /\ \A i \in 1..Len(candidates_data) :
                /\ Cardinality(RowFor(results', candidates_data[i].name)) = 1
                /\ \A k \in RowFor(results', candidates_data[i].name) :
                      /\ results'[k].rank = candidates_data[i].rank
                      /\ results'[k].percent = candidates_data[i].percent
          /\ \A k \in 1..(Len(results') - 1) :
                results'[k].rank < results'[k + 1].rank]_vars

\* C27 witness: a second cycle of two observations has returned its two
\* rows, rank 1 before rank 2, each with its observation's percent.
C27_TwoRowsInRankOrder ==
    /\ pc = "log"
    /\ timestamp = 2
    /\ Len(results) = 2
    /\ \A k \in 1..2 :
          /\ results[k].rank = k
          /\ results[k].name = candidates_data[k].name
          /\ results[k].percent = candidates_data[k].percent

\* C28 (as claimed): after every calibration that returns, each row's votes
\* are at least round(percent / 100 * T1), T1 being current_total as the
\* calibration leaves it (the total logged beside the row), also when the
\* calibration adopted a higher implied total.
C28_RowsConsistentWithLoggedTotal ==
    [][CalibrateReturns =>
          \A k \in 1..Len(results') :
              Leq(Round(results'[k].percent * current_total', 100),
                  results'[k].votes)]_vars

\* The calibration about to run has the observation list of the calibration
\* that returned in the iteration just before (results still holds its rows).
SameObservations ==
    /\ calibrated.timestamp = timestamp - 1
    /\ Len(results) = Len(candidates_data)
    /\ \A k \in 1..Len(results) :
          /\ results[k].name = candidates_data[k].name
          /\ results[k].percent = candidates_data[k].percent
          /\ results[k].rank = candidates_data[k].rank

\* The calibration leaves current_total, the votes stored for the observed
\* names and the rows returned as the calibration before left them.
LeavesUnchanged ==
    /\ current_total' = current_total
    /\ \A n \in Observed :
          n \in DOMAIN candidate_votes /\ candidate_votes'[n] = candidate_votes[n]
    /\ results' = results

\* C29 (as claimed): when a calibration has the same observation list as the
\* one of the cycle before, it leaves current_total and every candidate's
\* votes unchanged.
C29_FixedPointFromSecondCycle ==
    [][(CalibrateReturns /\ SameObservations) => LeavesUnchanged]_vars

\* C29 (amended): the same when the calibration of the cycle before left
\* current_total as it found it; after a calibration that raised the total,
\* the next one may raise votes and total again.
C29_FixedPointOnceTotalKept ==
    [][(CalibrateReturns /\ SameObservations /\ calibrated.total = current_total)
          => LeavesUnchanged]_vars

\* C29 witness: the second cycle of a run has returned, for the two
\* observations of the first cycle, the rows the first cycle logged, beside
\* the same total.
C29_SecondCycleSameRows ==
    /\ pc = "log"
    /\ timestamp = 2
    /\ run = 0
    /\ calibrated = [timestamp |-> 2, total |-> current_total]
    /\ Len(results) = 2
    /\ \A k \in 1..Len(results) :
          DataRow(1, current_total, results[k]) \in RowsOf(csv_file)

\* save_state() is called in this step: by main after log_to_csv, or by the
\* KeyboardInterrupt handler.
SaveStep ==
    \/ pc = "save" /\ pc' # "killed"
    \/ pc' = "stopped" /\ stop_saved'

\* The snapshot holds the total and the votes of every row the log has for
\* cycle t.
SnapshotAgrees(t) ==
    \A row \in RowsOfCycle(csv_file, t) :
        /\ Loaded(state_file).current_total = row.total
        /\ row.name \in DOMAIN Loaded(state_file).candidate_votes
        /\ Loaded(state_file).candidate_votes[row.name] = row.votes

\* After a cycle whose log append and snapshot save both returned, the
\* snapshot agrees with the rows of that cycle, one for every observation.
AgreeAfterSuccess ==
    (pc = "sleep" /\ outcome = "ok") =>
        /\ SnapshotAgrees(timestamp)
        /\ {row.name : row \in RowsOfCycle(csv_file, timestamp)} = Observed

\* C30 (as claimed): after every cycle in which the log append and the
\* snapshot save both succeed, the snapshot's current_total is the total of
\* that cycle's log rows and its candidate_votes entry of every observed
\* candidate is the votes of that candidate's row; and within a cycle every
\* call of save_state comes after the cycle's log append has returned.
C30_LogAndSnapshotAgree ==
    /\ [](AgreeAfterSuccess)
    /\ [][SaveStep => (pc = "save" /\ RowsOfCycle(csv_file, timestamp) # {})]_vars

====
